---- MODULE Spec2Model ----
(***************************************************************************)
(* ChiaTestLedger (cactus-test-tooling): one handle that launches a        *)
(* container through a container runtime client, polls it until its status *)
(* ends with "(healthy)", and offers stop / destroy / accessors.           *)
(*                                                                         *)
(* The handle's two mutable fields, every await of start() and of the      *)
(* "start" event handler, and the runtime's replies are modelled.  The     *)
(* runtime is the collaborator: its replies (ok / error, the status        *)
(* strings) are nondeterministic inputs.  Every request a start() call     *)
(* issues is recorded, in order, in issued[c], the way a mock runtime      *)
(* records its calls.                                                      *)
(***************************************************************************)
EXTENDS Integers, Sequences, FiniteSets, TLC

VARIABLES
    opts,              \* readonly field: the options the constructor was given
    imageVersion,      \* readonly field set by the constructor
    imageName,         \* readonly field set by the constructor
    emitContainerLogs, \* readonly field set by the constructor
    container,         \* this.container   (Undefined or a container reference)
    containerId,       \* this.containerId (Undefined or an id)
    rt,                \* the runtime: state of every container it may launch
    pc,                \* per start() call: where the call / its handler is suspended
    promise,           \* per start() call: the promise start() returned
    issued,            \* per start() call: the requests it issued, in order
    lists,             \* per start() call: the runtime's answer to its status query, once served
    ipCall,            \* the getContainerIpAddress() call in flight, if any
    stopCall,          \* the stop() call in flight, if any
    destroyCall,       \* the destroy() call in flight, if any
    lastOp             \* outcome of the stop()/destroy()/accessor call that settled in the last step

\* the fields the constructor sets, never written afterwards
config == <<opts, imageVersion, imageName, emitContainerLogs>>

\* the calls of stop(), destroy() and getContainerIpAddress() in flight
calls == <<ipCall, stopCall, destroyCall>>

vars == <<config, container, containerId, rt, pc, promise, issued, lists, calls, lastOp>>

(***************************************************************************)
(* Bounds                                                                  *)
(***************************************************************************)
MaxCalls == 2     \* start() calls made on the handle
MaxPolls == 2     \* "not yet healthy" answers (each followed by a wait) in the record

Calls == 1..MaxCalls
\* The container launched by call c is given the id c by the runtime; a
\* container reference is identified with the id it carries (container.id).
ContainerRefs == Calls
Undefined == 0

(***************************************************************************)
(* Status strings, as sequences of characters.                             *)
(***************************************************************************)
HealthySuffix == <<"(", "h", "e", "a", "l", "t", "h", "y", ")">>
StatusStarting == <<"U", "p", " ", "(", "s", "t", "a", "r", "t", "i", "n", "g", ")">>
StatusUnhealthy == <<"U", "p", " ", "(", "u", "n", "h", "e", "a", "l", "t", "h", "y", ")">>
StatusHealthy == <<"U", "p", " ">> \o HealthySuffix
StatusWasHealthy == HealthySuffix \o <<" ", "o", "l", "d">>
StatusUp == <<"U", "p">>
Statuses ==
    {StatusStarting, StatusUnhealthy, StatusHealthy, StatusWasHealthy, StatusUp,
     HealthySuffix}

\* String.prototype.endsWith(search): the last Len(search) characters of s
\* are compared with search; false when s is shorter than search.
EndsWith(s, search) ==
    /\ Len(search) <= Len(s)
    /\ \A i \in 1..Len(search) : s[Len(s) - Len(search) + i] = search[i]

\* (mutation: the suffix is looked for anywhere in the status)
IsHealthyStatus_Includes(status) ==
    \E i \in 1..Len(status) :
        /\ i + Len(HealthySuffix) - 1 <= Len(status)
        /\ SubSeq(status, i, i + Len(HealthySuffix) - 1) = HealthySuffix

\* line 132: containerInfo.Status.endsWith("(healthy)")
IsHealthyStatus(status) == EndsWith(status, HealthySuffix)

(***************************************************************************)
(* Constructor                                                             *)
(***************************************************************************)
\* A string is a sequence of pieces; "" is the empty sequence.
\* lines 22-26: DEFAULTS
DefaultImageName == <<"ghcr.io/hyperledger/chia-all-in-one">>
DefaultImageVersion == <<"v1.0.0">>

\* An optional string option: omitted (undefined), or given with a value.
Omitted == [given |-> FALSE, value |-> <<>>]
Given(str) == [given |-> TRUE, value |-> str]

\* opts.imageName / opts.imageVersion as given by the caller
OptImageNames == {Omitted, Given(<<>>), Given(<<"localhost/", "chia">>)}
OptImageVersions == {Omitted, Given(<<>>), Given(<<"2">>)}

\* (mutation: only an omitted option is replaced, as with ??)
OrDefault_Nullish(opt, default) == IF opt.given THEN opt.value ELSE default

\* line 56-57: opt || DEFAULT  (undefined and "" are falsy)
OrDefault(opt, default) ==
    IF opt.given /\ opt.value # <<>> THEN opt.value ELSE default

\* opts.emitContainerLogs as given by the caller
OptBooleans == {"undefined", "true", "false", "yes"}

\* Bools.isBooleanStrict(x) ? x : true
EmitContainerLogsOf(opt) ==
    IF opt \in {"true", "false"} THEN opt = "true" ELSE TRUE

(***************************************************************************)
(* Promises and the record of issued requests                              *)
(***************************************************************************)
NoPromise == [state |-> "none", value |-> Undefined, error |-> "none"]
PendingPromise == [state |-> "pending", value |-> Undefined, error |-> "none"]

\* reject(err) / a throw out of the async start(): settles a pending promise,
\* and is a no-op on a settled one.
Rejected(p, err) ==
    IF p.state = "pending"
      THEN [state |-> "rejected", value |-> Undefined, error |-> err]
      ELSE p

\* resolve(container)
Resolved(p, ref) ==
    IF p.state = "pending"
      THEN [state |-> "resolved", value |-> ref, error |-> "none"]
      ELSE p

\* One recorded request: the operation, the container it addresses, the
\* runtime's reply ("pending" until it arrives) and the handle's fields at
\* the moment the request was issued.
Entry(op, target, ref, id) ==
    [op |-> op, target |-> target, res |-> "pending", seenRef |-> ref, seenId |-> id]

\* The runtime's reply to the latest request of the record.
Replied(log, res) ==
    [log EXCEPT ![Len(log)] = [@ EXCEPT !.res = res]]

\* The target of the latest request of the record.
LastTarget(log) == log[Len(log)].target


\* What the caller of stop(), destroy() or an accessor observes: the result
\* (and value) of the call and the request the call sent to the runtime.
OutcomeOn(op, res, val, req, target, str, input) ==
    [op |-> op, res |-> res, val |-> val, req |-> req, target |-> target,
     str |-> str, input |-> input]

\* val: the container reference or id returned; str: the string returned;
\* input: what the runtime handed to the call.
Outcome(op, res, val, req, target) == OutcomeOn(op, res, val, req, target, <<>>, <<>>)

\* lastOp holds the outcome of the call that returned or settled in the last
\* step, if there is one.
NoOp == Outcome("none", "none", Undefined, "none", Undefined)

\* getContainerIpAddress() is suspended at line 172 from its call until the
\* reply to docker.listContainers({}) is delivered; the runtime serves the
\* request at some moment in between.
IpIdle == [stage |-> "idle", listOk |-> TRUE, list |-> {}]
IpRequested == [stage |-> "requested", listOk |-> TRUE, list |-> {}]
IpAnswered(ok, list) == [stage |-> "answered", listOk |-> ok, list |-> list]

\* The status query of a start() call (line 172) is in flight from the
\* moment the health loop issues it until its reply is delivered; the
\* runtime serves it at some moment in between, with the containers running
\* at that moment.
NoList == [served |-> FALSE, ok |-> TRUE, list |-> {}]
ServedList(ok, list) == [served |-> TRUE, ok |-> ok, list |-> list]

\* stop() and destroy() return the promise of the request they issue
\* (lines 146 and 152): the call is in flight from then until the runtime's
\* reply settles the promise.  One call of each is followed at a time.
NoCall == [stage |-> "idle", target |-> Undefined]
Requested(ref) == [stage |-> "requested", target |-> ref]

\* lines 52-70: the handle as constructed from options drawn from the given sets
InitWith(names, versions, booleans) ==
    /\ \E n \in names, v \in versions, e \in booleans :
          /\ opts = [imageName |-> n, imageVersion |-> v, emitContainerLogs |-> e]
          /\ imageVersion = OrDefault(v, DefaultImageVersion)
          /\ imageName = OrDefault(n, DefaultImageName)
          /\ emitContainerLogs = EmitContainerLogsOf(e)
    /\ container = Undefined
    /\ containerId = Undefined
    /\ rt = [i \in ContainerRefs |-> "absent"]
    /\ pc = [c \in Calls |-> "unused"]
    /\ promise = [c \in Calls |-> NoPromise]
    /\ issued = [c \in Calls |-> <<>>]
    /\ lists = [c \in Calls |-> NoList]
    /\ ipCall = IpIdle
    /\ stopCall = NoCall
    /\ destroyCall = NoCall
    /\ lastOp = NoOp

\* a handle constructed with the default image, log streaming on or off
Init == InitWith({Omitted}, {Omitted}, {"undefined", "false"})

\* a handle constructed with any options
InitConfig == InitWith(OptImageNames, OptImageVersions, OptBooleans)

(***************************************************************************)
(* The runtime (collaborator).  A request for a container is accepted only *)
(* while the container exists; any request may fail.                       *)
(***************************************************************************)
\* containers launched and not yet removed
Live == {i \in ContainerRefs : rt[i] \in {"running", "stopped"}}

\* docker.listContainers({}): the running containers
Listed == {i \in ContainerRefs : rt[i] = "running"}

\* Sequential use: the caller awaits each call before making the next.
Idle == \A c \in Calls : promise[c].state # "pending"

\* the start() calls in flight
Pending == {c \in Calls : promise[c].state = "pending"}

\* Sequential use: a call is made only when no start() is in flight.
\* Overlapping use: a call is made while at most one start() is in flight.
MayInvoke(overlapping) ==
    IF overlapping THEN \A c, d \in Pending : c = d ELSE Idle

(***************************************************************************)
(* start(), lines 82-143                                                   *)
(***************************************************************************)
\* (mutation: start() never cleans up the container it recorded)
StartCleansUp_Never == FALSE

\* line 85: if (this.container)
StartCleansUp == container # Undefined

\* (mutation: the executor issues a status query along with docker.run)
RunIssued_Polling(log) ==
    Append(Append(log, Entry("run", Undefined, container, containerId)),
           Entry("query", Undefined, container, containerId))

\* lines 91-111: new Promise(executor); the executor issues docker.run
\* synchronously and registers the "start" handler.
RunIssued(log) == Append(log, Entry("run", Undefined, container, containerId))

\* A call is followed until the first start() that is called after its
\* promise has settled and its "start" handler has come to rest.  From then
\* on it is "left": its promise and its record are dropped.  A handler still
\* suspended after a rejection by the run callback keeps running and is
\* followed until it has come to rest.
Settled(d) == promise[d].state \in {"resolved", "rejected"}
AtRest(d) == pc[d] \in {"ended", "crashed"}
Leaves(d) == Settled(d) /\ AtRest(d)
ForgottenPc == [d \in Calls |-> IF Leaves(d) THEN "left" ELSE pc[d]]
ForgottenPromise == [d \in Calls |-> IF Leaves(d) THEN NoPromise ELSE promise[d]]
ForgottenIssued == [d \in Calls |-> IF Leaves(d) THEN <<>> ELSE issued[d]]

\* lines 82-88, up to the first await (or, without a prior container, up to
\* the return of the promise).
StartInvoke(c, overlapping) ==
    /\ pc[c] = "unused"
    /\ \A d \in Calls : d < c => pc[d] # "unused"
    /\ MayInvoke(overlapping)
    /\ promise' = [ForgottenPromise EXCEPT ![c] = PendingPromise]
    /\ IF StartCleansUp
         THEN /\ issued' = [ForgottenIssued EXCEPT
                    ![c] = <<Entry("stop", container, container, containerId)>>]
              /\ pc' = [ForgottenPc EXCEPT ![c] = "awaitStop"]
         ELSE /\ issued' = [ForgottenIssued EXCEPT ![c] = RunIssued(<<>>)]
              /\ pc' = [ForgottenPc EXCEPT ![c] = "awaitRun"]
    /\ lastOp' = NoOp
    /\ UNCHANGED <<config, lists, calls, container, containerId, rt>>

\* line 86 completes; line 87 issues this.container.remove()
StopReplyOk(c) ==
    /\ pc[c] = "awaitStop"
    /\ rt[LastTarget(issued[c])] \in {"running", "stopped"}
    /\ rt' = [rt EXCEPT ![LastTarget(issued[c])] = "stopped"]
    /\ issued' = [issued EXCEPT ![c] =
          Append(Replied(@, "ok"), Entry("remove", container, container, containerId))]
    /\ pc' = [pc EXCEPT ![c] = "awaitRemove"]
    /\ lastOp' = NoOp
    /\ UNCHANGED <<config, lists, calls, container, containerId, promise>>

\* (mutation: a failed stop is swallowed and the run request goes out)
StopReplyErr_Swallowed(c) ==
    /\ pc[c] = "awaitStop"
    /\ issued' = [issued EXCEPT ![c] = RunIssued(Replied(@, "err"))]
    /\ pc' = [pc EXCEPT ![c] = "awaitRun"]
    /\ lastOp' = NoOp
    /\ UNCHANGED <<config, lists, calls, container, containerId, rt, promise>>

\* line 86 throws: the async function rejects its promise
StopReplyErr(c) ==
    /\ pc[c] = "awaitStop"
    /\ issued' = [issued EXCEPT ![c] = Replied(@, "err")]
    /\ promise' = [promise EXCEPT ![c] = Rejected(@, "StopError")]
    /\ pc' = [pc EXCEPT ![c] = "ended"]
    /\ lastOp' = NoOp
    /\ UNCHANGED <<config, lists, calls, container, containerId, rt>>

\* line 87 completes; lines 89-111 issue the run request
RemoveReplyOk(c) ==
    /\ pc[c] = "awaitRemove"
    /\ rt[LastTarget(issued[c])] \in {"running", "stopped"}
    /\ rt' = [rt EXCEPT ![LastTarget(issued[c])] = "removed"]
    /\ issued' = [issued EXCEPT ![c] = RunIssued(Replied(@, "ok"))]
    /\ pc' = [pc EXCEPT ![c] = "awaitRun"]
    /\ lastOp' = NoOp
    /\ UNCHANGED <<config, lists, calls, container, containerId, promise>>

\* line 87 throws
RemoveReplyErr(c) ==
    /\ pc[c] = "awaitRemove"
    /\ issued' = [issued EXCEPT ![c] = Replied(@, "err")]
    /\ promise' = [promise EXCEPT ![c] = Rejected(@, "RemoveError")]
    /\ pc' = [pc EXCEPT ![c] = "ended"]
    /\ lastOp' = NoOp
    /\ UNCHANGED <<config, lists, calls, container, containerId, rt>>

\* (mutation: a failed run request is issued again)
RunFailed_Retried(c) ==
    /\ pc[c] = "awaitRun"
    /\ Len(issued[c]) < 4
    /\ issued' = [issued EXCEPT ![c] = RunIssued(Replied(@, "err"))]
    /\ lastOp' = NoOp
    /\ UNCHANGED <<config, lists, calls, container, containerId, rt, pc, promise>>

\* lines 106-110, the run callback reporting an error before the runtime
\* has started the container: reject(err); no "start" event follows.  The
\* run request fails as a whole: the runtime launches no container for it.
RunFailed(c) ==
    /\ pc[c] = "awaitRun"
    /\ issued' = [issued EXCEPT ![c] = Replied(@, "err")]
    /\ promise' = [promise EXCEPT ![c] = Rejected(@, "RunError")]
    /\ pc' = [pc EXCEPT ![c] = "ended"]
    /\ lastOp' = NoOp
    /\ UNCHANGED <<config, lists, calls, container, containerId, rt>>

\* lines 106-110, the run callback reporting an error after the "start"
\* event (the runtime's wait on the container failed): reject(err), while
\* the "start" handler goes on where it is.
RunCallbackErr(c) ==
    /\ pc[c] \in {"awaitLogs", "awaitList", "sleep", "ended", "crashed"}
    /\ rt[c] # "absent"
    /\ promise[c].state = "pending"
    /\ promise' = [promise EXCEPT ![c] = Rejected(@, "RunError")]
    /\ lastOp' = NoOp
    /\ UNCHANGED <<config, lists, calls, container, containerId, rt, pc, issued>>

\* lines 129/172: getContainerInfo() issues docker.listContainers({})
QueryIssued(log, ref, id) == Append(log, Entry("query", Undefined, ref, id))

\* (mutation: logs are streamed whatever the option says)
HandlerStreamsLogs_Always == TRUE

\* line 117: if (this.emitContainerLogs)
HandlerStreamsLogs == emitContainerLogs

\* (mutation: the reference the event carries has no id)
ContainerIdOf_Missing(ref) == Undefined

\* line 115: container.id, the id of the container the reference stands for
ContainerIdOf(ref) == ref

\* lines 113-125 (and 126-129 when logs are not streamed): the runtime
\* starts container c and emits "start"; the handler records the container
\* and runs up to its first await.
RunStarted(c) ==
    /\ pc[c] = "awaitRun"
    /\ rt[c] = "absent"
    /\ rt' = [rt EXCEPT ![c] = "running"]
    /\ container' = c
    /\ containerId' = ContainerIdOf(c)
    /\ IF HandlerStreamsLogs
         THEN /\ issued' = [issued EXCEPT ![c] =
                    Append(Replied(@, "started"), Entry("logs", c, c, ContainerIdOf(c)))]
              /\ pc' = [pc EXCEPT ![c] = "awaitLogs"]
         ELSE /\ issued' = [issued EXCEPT ![c] = QueryIssued(Replied(@, "started"), c, ContainerIdOf(c))]
              /\ pc' = [pc EXCEPT ![c] = "awaitList"]
    /\ lastOp' = NoOp
    /\ UNCHANGED <<config, lists, calls, promise>>

\* lines 119-129: streamLogs completes, the handler enters the try block
LogsReplyOk(c) ==
    /\ pc[c] = "awaitLogs"
    /\ issued' = [issued EXCEPT ![c] = QueryIssued(Replied(@, "ok"), container, containerId)]
    /\ pc' = [pc EXCEPT ![c] = "awaitList"]
    /\ lastOp' = NoOp
    /\ UNCHANGED <<config, lists, calls, container, containerId, rt, promise>>

\* lines 119-123: streamLogs throws outside the try block; the handler's own
\* promise rejects and nobody observes it.
LogsReplyErr(c) ==
    /\ pc[c] = "awaitLogs"
    /\ issued' = [issued EXCEPT ![c] = Replied(@, "err")]
    /\ pc' = [pc EXCEPT ![c] = "crashed"]
    /\ lastOp' = NoOp
    /\ UNCHANGED <<config, lists, calls, container, containerId, rt, promise>>

(***************************************************************************)
(* The health loop, lines 126-140, and getContainerInfo(), lines 169-182   *)
(***************************************************************************)
\* Checks.nonBlankString(value): the value is a string with a character
\* other than white space in it.  Ids the runtime gives are such strings.
NonBlankString(v) == v # Undefined

\* "not yet healthy" answers call c has received (one wait follows each)
NumWaits(log) == Cardinality({i \in DOMAIN log : log[i].op = "wait"})
NumQueries(log) == Cardinality({i \in DOMAIN log : log[i].op = "query"})

RECURSIVE SumWaits(_)
SumWaits(cs) ==
    IF cs = {} THEN 0
    ELSE LET c == CHOOSE x \in cs : TRUE
         IN  NumWaits(issued[c]) + SumWaits(cs \ {c})

\* waits in the record, over all calls
RecordedWaits == SumWaits(Calls)

\* What the runtime itself means by a status: these report a container
\* whose health check has passed, the others do not.
ReportedHealthy == {StatusHealthy, HealthySuffix}
Report(status) == IF status \in ReportedHealthy THEN "healthy" ELSE "unhealthy"

\* The reply to the latest request, a status query: what the runtime
\* returned and the id the container was looked up with.
RepliedQuery(log, res, id) ==
    [log EXCEPT ![Len(log)] = [@ EXCEPT !.res = res, !.target = id]]

\* the runtime serves the status query of call c: it fails, or lists the
\* containers running at this moment
QueryServed(c, ok) ==
    /\ pc[c] = "awaitList"
    /\ ~lists[c].served
    /\ lists' = [lists EXCEPT ![c] = ServedList(ok, IF ok THEN Listed ELSE {})]
    /\ lastOp' = NoOp
    /\ UNCHANGED <<config, calls, container, containerId, rt, pc, promise, issued>>

\* (mutation: a failed status query is retried after a wait)
ListReplyErr_Retried(c) ==
    /\ pc[c] = "awaitList"
    /\ lists[c].served /\ ~lists[c].ok
    /\ RecordedWaits < MaxPolls
    /\ issued' = [issued EXCEPT ![c] =
          Append(RepliedQuery(@, "err", Undefined),
                 Entry("wait", Undefined, container, containerId))]
    /\ pc' = [pc EXCEPT ![c] = "sleep"]
    /\ lists' = [lists EXCEPT ![c] = NoList]
    /\ lastOp' = NoOp
    /\ UNCHANGED <<config, calls, container, containerId, rt, promise>>

\* line 172 throws (the runtime could not be queried); lines 138-139 reject
ListReplyErr(c) ==
    /\ pc[c] = "awaitList"
    /\ lists[c].served /\ ~lists[c].ok
    /\ issued' = [issued EXCEPT ![c] = RepliedQuery(@, "err", Undefined)]
    /\ promise' = [promise EXCEPT ![c] = Rejected(@, "ListError")]
    /\ pc' = [pc EXCEPT ![c] = "ended"]
    /\ lists' = [lists EXCEPT ![c] = NoList]
    /\ lastOp' = NoOp
    /\ UNCHANGED <<config, calls, container, containerId, rt>>

\* lines 172-181: the list the runtime served is delivered; line 173 reads
\* this.containerId now, and the list holds no container with that id (or
\* no id is recorded); lines 138-139 reject
ListReplyAbsent(c) ==
    /\ pc[c] = "awaitList"
    /\ lists[c].served /\ lists[c].ok
    /\ ~NonBlankString(containerId) \/ containerId \notin lists[c].list
    /\ issued' = [issued EXCEPT ![c] = RepliedQuery(@, "absent", containerId)]
    /\ promise' = [promise EXCEPT ![c] =
          Rejected(@, IF NonBlankString(containerId) THEN "NoContainerWithId"
                                                    ELSE "NotStartedError")]
    /\ pc' = [pc EXCEPT ![c] = "ended"]
    /\ lists' = [lists EXCEPT ![c] = NoList]
    /\ lastOp' = NoOp
    /\ UNCHANGED <<config, calls, container, containerId, rt>>

\* lines 129-137: the list the runtime served is delivered and holds the
\* container with the id recorded now, with this status
ListReplyStatus(c, status) ==
    /\ pc[c] = "awaitList"
    /\ lists[c].served /\ lists[c].ok
    /\ NonBlankString(containerId) /\ containerId \in lists[c].list
    /\ IF IsHealthyStatus(status)
         THEN \* line 137: resolve(container), the reference the event carried
              /\ issued' = [issued EXCEPT ![c] = RepliedQuery(@, Report(status), containerId)]
              /\ promise' = [promise EXCEPT ![c] = Resolved(@, c)]
              /\ pc' = [pc EXCEPT ![c] = "ended"]
         ELSE \* line 134: wait one second (the loop has no limit of its own;
              \* the waits followed are bounded by MaxPolls)
              /\ RecordedWaits < MaxPolls
              /\ issued' = [issued EXCEPT ![c] =
                    Append(RepliedQuery(@, Report(status), containerId),
                           Entry("wait", Undefined, container, containerId))]
              /\ promise' = promise
              /\ pc' = [pc EXCEPT ![c] = "sleep"]
    /\ lists' = [lists EXCEPT ![c] = NoList]
    /\ lastOp' = NoOp
    /\ UNCHANGED <<config, calls, container, containerId, rt>>

\* lines 134-136 and 129: the second has passed, the loop queries again
TimerFires(c) ==
    /\ pc[c] = "sleep"
    /\ issued' = [issued EXCEPT ![c] = QueryIssued(Replied(@, "ok"), container, containerId)]
    /\ pc' = [pc EXCEPT ![c] = "awaitList"]
    /\ lastOp' = NoOp
    /\ UNCHANGED <<config, lists, calls, container, containerId, rt, promise>>

\* the container's process ends by itself
ContainerExits(i) ==
    /\ rt[i] = "running"
    /\ rt' = [rt EXCEPT ![i] = "stopped"]
    /\ lastOp' = NoOp
    /\ UNCHANGED <<config, lists, calls, container, containerId, pc, promise, issued>>

(***************************************************************************)
(* stop(), destroy() and getContainerId()                                  *)
(***************************************************************************)

\* (mutation: the id is returned without the check)
GetContainerIdResult_Unchecked ==
    Outcome("getContainerId", "ok", containerId, "none", Undefined)

\* lines 72-76
GetContainerIdResult ==
    IF NonBlankString(containerId)
      THEN Outcome("getContainerId", "ok", containerId, "none", Undefined)
      ELSE Outcome("getContainerId", "NotStartedError", Undefined, "none", Undefined)

\* a synchronous accessor: it may be called while a start() is pending
GetContainerId ==
    /\ lastOp' = GetContainerIdResult
    /\ UNCHANGED <<config, lists, calls, container, containerId, rt, pc, promise, issued>>

\* lines 160-167: getContainer() throws unless this.container is set
GetContainerThrows == ~(container # Undefined)

\* Containers.stop(container) issues container.stop() and returns a promise
\* that the runtime's reply settles (ok: the runtime is willing to stop it).
ContainersStop(ref, ok) ==
    IF ok /\ rt[ref] \in {"running", "stopped"}
      THEN Outcome("stop", "ok", Undefined, "stop", ref)
      ELSE Outcome("stop", "StopError", Undefined, "stop", ref)

\* the runtime after that request
StoppedBy(outcome) ==
    IF outcome.res = "ok" THEN [rt EXCEPT ![outcome.target] = "stopped"] ELSE rt

\* (mutation: stop() without a recorded container is not an error)
StopWithoutContainer_Silent ==
    Outcome("stop", "ok", Undefined, "none", Undefined)

\* line 146: getContainer() throws, nothing is passed to Containers.stop
StopWithoutContainer ==
    Outcome("stop", "ContainerNotSet", Undefined, "none", Undefined)

\* (mutation: stop() forgets the container it asks the runtime to stop)
Stop_Clearing(overlapping) ==
    /\ MayInvoke(overlapping)
    /\ stopCall = NoCall
    /\ IF GetContainerThrows
         THEN /\ lastOp' = StopWithoutContainer
              /\ stopCall' = stopCall
              /\ UNCHANGED <<container, containerId>>
         ELSE /\ lastOp' = NoOp
              /\ stopCall' = Requested(container)
              /\ container' = Undefined
              /\ containerId' = Undefined
    /\ UNCHANGED <<config, lists, ipCall, destroyCall, rt, pc, promise, issued>>

\* lines 145-147, the call: getContainer() throws, or the stop request for
\* the recorded container goes out and its promise is returned, pending
Stop(overlapping) ==
    /\ MayInvoke(overlapping)
    /\ stopCall = NoCall
    /\ IF GetContainerThrows
         THEN /\ lastOp' = StopWithoutContainer
              /\ stopCall' = stopCall
         ELSE /\ lastOp' = NoOp
              /\ stopCall' = Requested(container)
    /\ UNCHANGED <<config, lists, ipCall, destroyCall, container, containerId, rt, pc,
                   promise, issued>>

\* the runtime's reply to the stop request settles the promise stop()
\* returned; a start() may have been called in between
StopReply(ok) ==
    /\ stopCall.stage = "requested"
    /\ lastOp' = ContainersStop(stopCall.target, ok)
    /\ rt' = StoppedBy(lastOp')
    /\ stopCall' = NoCall
    /\ UNCHANGED <<config, lists, ipCall, destroyCall, container, containerId, pc, promise,
                   issued>>

\* line 151: if (this.container)
DestroyHasContainer == container # Undefined

\* (mutation: nothing to destroy is not an error)
DestroyWithoutContainer_Silent ==
    Outcome("destroy", "ok", Undefined, "none", Undefined)

\* lines 154-156: Promise.reject(new Error("... nothing to destroy."))
DestroyWithoutContainer ==
    Outcome("destroy", "NoContainerError", Undefined, "none", Undefined)

\* (mutation: destroy() clears the recorded reference and id)
Destroy_Clearing(overlapping) ==
    /\ MayInvoke(overlapping)
    /\ destroyCall = NoCall
    /\ IF DestroyHasContainer
         THEN /\ lastOp' = NoOp
              /\ destroyCall' = Requested(container)
              /\ container' = Undefined
              /\ containerId' = Undefined
         ELSE /\ lastOp' = DestroyWithoutContainer
              /\ destroyCall' = destroyCall
              /\ UNCHANGED <<container, containerId>>
    /\ UNCHANGED <<config, lists, ipCall, stopCall, rt, pc, promise, issued>>

\* lines 149-158, the call: the remove request for the recorded container
\* goes out and its promise is returned, pending; or a rejected promise is
\* returned
Destroy(overlapping) ==
    /\ MayInvoke(overlapping)
    /\ destroyCall = NoCall
    /\ IF DestroyHasContainer
         THEN /\ lastOp' = NoOp
              /\ destroyCall' = Requested(container)
         ELSE /\ lastOp' = DestroyWithoutContainer
              /\ destroyCall' = destroyCall
    /\ UNCHANGED <<config, lists, ipCall, stopCall, container, containerId, rt, pc, promise,
                   issued>>

\* line 152: the runtime's reply to container.remove() settles the promise
\* destroy() returned (ok: the runtime is willing to remove the container);
\* a start() may have been called in between
DestroyReply(ok) ==
    /\ destroyCall.stage = "requested"
    /\ IF ok /\ rt[destroyCall.target] \in {"running", "stopped"}
         THEN /\ lastOp' = Outcome("destroy", "ok", Undefined, "remove", destroyCall.target)
              /\ rt' = [rt EXCEPT ![destroyCall.target] = "removed"]
         ELSE /\ lastOp' = Outcome("destroy", "RemoveError", Undefined, "remove",
                                   destroyCall.target)
              /\ rt' = rt
    /\ destroyCall' = NoCall
    /\ UNCHANGED <<config, lists, ipCall, stopCall, container, containerId, pc, promise,
                   issued>>

(***************************************************************************)
(* getContainer(), getContainerImageName() and getContainerIpAddress()     *)
(***************************************************************************)
\* lines 160-167
GetContainerResult ==
    IF GetContainerThrows
      THEN Outcome("getContainer", "ContainerNotSet", Undefined, "none", Undefined)
      ELSE Outcome("getContainer", "ok", container, "none", Undefined)

GetContainer ==
    /\ lastOp' = GetContainerResult
    /\ UNCHANGED <<config, lists, calls, container, containerId, rt, pc, promise, issued>>

\* lines 78-80: `${this.imageName}:${this.imageVersion}`
ImageFqn(name, version) == name \o <<":">> \o version

GetContainerImageNameResult ==
    OutcomeOn("getContainerImageName", "ok", Undefined, "none", Undefined,
              ImageFqn(imageName, imageVersion), <<>>)

GetContainerImageName ==
    /\ lastOp' = GetContainerImageNameResult
    /\ UNCHANGED <<config, lists, calls, container, containerId, rt, pc, promise, issued>>

\* ContainerInfo.NetworkSettings.Networks as the runtime client hands it
\* over: the networks, in the order the object enumerates them.
Bridge == [name |-> "bridge", ip |-> <<"172.17.0.2">>]
Custom == [name |-> "custom", ip |-> <<"10.0.0.5">>]
NetworkMaps == {<<>>, <<Bridge>>, <<Custom>>, <<Bridge, Custom>>, <<Custom, Bridge>>}

\* (mutation: the networks are taken in the reverse order)
ObjectKeys_Reversed(nets) == [i \in DOMAIN nets |-> nets[Len(nets) + 1 - i].name]

\* line 190: Object.keys(NetworkSettings.Networks)
ObjectKeys(nets) == [i \in DOMAIN nets |-> nets[i].name]

\* line 196: NetworkSettings.Networks[name].IPAddress
IpAddressOn(nets, name) == (CHOOSE n \in {nets[i] : i \in DOMAIN nets} : n.name = name).ip

\* lines 184-201 with getContainerInfo(), lines 173-181, run when the reply
\* is delivered: listOk and list are the runtime's reply to listContainers,
\* nets the networks the reply gives for the container
GetContainerIpAddressResult(listOk, list, nets) ==
    IF ~listOk
      THEN OutcomeOn("getContainerIpAddress", "ListError", Undefined, "list", Undefined,
                     <<>>, nets)
    ELSE IF ~NonBlankString(containerId)
      THEN OutcomeOn("getContainerIpAddress", "NotStartedError", Undefined, "list",
                     Undefined, <<>>, nets)
    ELSE IF containerId \notin list
      THEN OutcomeOn("getContainerIpAddress", "NoContainerWithId", Undefined, "list",
                     containerId, <<>>, nets)
    ELSE IF Len(ObjectKeys(nets)) < 1
      THEN OutcomeOn("getContainerIpAddress", "NoNetworkError", Undefined, "list",
                     containerId, <<>>, nets)
    ELSE OutcomeOn("getContainerIpAddress", "ok", Undefined, "list", containerId,
                   IpAddressOn(nets, ObjectKeys(nets)[1]), nets)

\* lines 184-185 and 172: the call issues docker.listContainers({}) and is
\* suspended; like the other accessors it may be called at any time
GetContainerIpAddress ==
    /\ ipCall = IpIdle
    /\ ipCall' = IpRequested
    /\ lastOp' = NoOp
    /\ UNCHANGED <<config, lists, stopCall, destroyCall, container, containerId, rt, pc,
                   promise, issued>>

\* the runtime serves the list request: it fails, or lists the containers
\* running at this moment
ListServed(ok) ==
    /\ ipCall = IpRequested
    /\ ipCall' = IpAnswered(ok, IF ok THEN Listed ELSE {})
    /\ lastOp' = NoOp
    /\ UNCHANGED <<config, lists, stopCall, destroyCall, container, containerId, rt, pc,
                   promise, issued>>

\* lines 172-181 and 186-200: the reply is delivered; this.containerId is
\* read now
GetContainerIpAddressReply(nets) ==
    /\ ipCall.stage = "answered"
    /\ lastOp' = GetContainerIpAddressResult(ipCall.listOk, ipCall.list, nets)
    /\ ipCall' = IpIdle
    /\ UNCHANGED <<config, lists, stopCall, destroyCall, container, containerId, rt, pc,
                   promise, issued>>

(***************************************************************************)
(* Sequential use of one handle, start() only: a start() is called when    *)
(* no promise of an earlier start() is pending.  The run callback may       *)
(* report an error after the "start" event.                                *)
(***************************************************************************)
Next ==
    \/ \E c \in Calls : StartInvoke(c, FALSE)
    \/ \E c \in Calls : StopReplyOk(c)
    \/ \E c \in Calls : StopReplyErr(c)
    \/ \E c \in Calls : RemoveReplyOk(c)
    \/ \E c \in Calls : RemoveReplyErr(c)
    \/ \E c \in Calls : RunStarted(c)
    \/ \E c \in Calls : RunFailed(c)
    \/ \E c \in Calls : RunCallbackErr(c)
    \/ \E c \in Calls : LogsReplyOk(c)
    \/ \E c \in Calls : LogsReplyErr(c)
    \/ \E c \in Calls, ok \in BOOLEAN : QueryServed(c, ok)
    \/ \E c \in Calls : ListReplyErr(c)
    \/ \E c \in Calls : ListReplyAbsent(c)
    \/ \E c \in Calls, status \in Statuses : ListReplyStatus(c, status)
    \/ \E c \in Calls : TimerFires(c)
    \/ \E i \in ContainerRefs : ContainerExits(i)

Spec == Init /\ [][Next]_vars

(***************************************************************************)
(* Sequential use of one handle with every operation of the class, the     *)
(* runtime's wait on a container never failing.                            *)
(***************************************************************************)
NextAccess ==
    \/ \E c \in Calls : StartInvoke(c, FALSE)
    \/ \E c \in Calls : StopReplyOk(c)
    \/ \E c \in Calls : StopReplyErr(c)
    \/ \E c \in Calls : RemoveReplyOk(c)
    \/ \E c \in Calls : RemoveReplyErr(c)
    \/ \E c \in Calls : RunStarted(c)
    \/ \E c \in Calls : RunFailed(c)
    \/ \E c \in Calls : LogsReplyOk(c)
    \/ \E c \in Calls : LogsReplyErr(c)
    \/ \E c \in Calls, ok \in BOOLEAN : QueryServed(c, ok)
    \/ \E c \in Calls : ListReplyErr(c)
    \/ \E c \in Calls : ListReplyAbsent(c)
    \/ \E c \in Calls, status \in Statuses : ListReplyStatus(c, status)
    \/ \E c \in Calls : TimerFires(c)
    \/ \E i \in ContainerRefs : ContainerExits(i)
    \/ GetContainerId
    \/ Stop(FALSE)
    \/ \E ok \in BOOLEAN : StopReply(ok)
    \/ Destroy(FALSE)
    \/ \E ok \in BOOLEAN : DestroyReply(ok)
    \/ GetContainer
    \/ GetContainerImageName
    \/ GetContainerIpAddress
    \/ \E ok \in BOOLEAN : ListServed(ok)
    \/ \E nets \in NetworkMaps : GetContainerIpAddressReply(nets)

SpecAccess == Init /\ [][NextAccess]_vars

(***************************************************************************)
(* Sequential use of a handle constructed with any options: start(),       *)
(* stop(), destroy() and getContainerImageName().                          *)
(***************************************************************************)
NextConfig ==
    \/ \E c \in Calls : StartInvoke(c, FALSE)
    \/ \E c \in Calls : StopReplyOk(c)
    \/ \E c \in Calls : StopReplyErr(c)
    \/ \E c \in Calls : RemoveReplyOk(c)
    \/ \E c \in Calls : RemoveReplyErr(c)
    \/ \E c \in Calls : RunStarted(c)
    \/ \E c \in Calls : RunFailed(c)
    \/ \E c \in Calls : LogsReplyOk(c)
    \/ \E c \in Calls : LogsReplyErr(c)
    \/ \E c \in Calls, ok \in BOOLEAN : QueryServed(c, ok)
    \/ \E c \in Calls : ListReplyErr(c)
    \/ \E c \in Calls : ListReplyAbsent(c)
    \/ \E c \in Calls, status \in Statuses : ListReplyStatus(c, status)
    \/ \E c \in Calls : TimerFires(c)
    \/ \E i \in ContainerRefs : ContainerExits(i)
    \/ Stop(FALSE)
    \/ \E ok \in BOOLEAN : StopReply(ok)
    \/ Destroy(FALSE)
    \/ \E ok \in BOOLEAN : DestroyReply(ok)
    \/ GetContainerImageName

SpecConfig == InitConfig /\ [][NextConfig]_vars

(***************************************************************************)
(* start() called on one handle while an earlier start() is in flight.     *)
(* Containers do not exit on their own here, and the runtime's wait on a   *)
(* container never fails.                                                  *)
(***************************************************************************)
NextOverlap ==
    \/ \E c \in Calls : StartInvoke(c, TRUE)
    \/ \E c \in Calls : StopReplyOk(c)
    \/ \E c \in Calls : StopReplyErr(c)
    \/ \E c \in Calls : RemoveReplyOk(c)
    \/ \E c \in Calls : RemoveReplyErr(c)
    \/ \E c \in Calls : RunStarted(c)
    \/ \E c \in Calls : RunFailed(c)
    \/ \E c \in Calls : LogsReplyOk(c)
    \/ \E c \in Calls : LogsReplyErr(c)
    \/ \E c \in Calls, ok \in BOOLEAN : QueryServed(c, ok)
    \/ \E c \in Calls : ListReplyErr(c)
    \/ \E c \in Calls : ListReplyAbsent(c)
    \/ \E c \in Calls, status \in Statuses : ListReplyStatus(c, status)
    \/ \E c \in Calls : TimerFires(c)

SpecOverlap == Init /\ [][NextOverlap]_vars

(***************************************************************************)
(* Properties                                                              *)
(***************************************************************************)
\* positions of the requests of one kind in a record
Positions(log, op) == {i \in DOMAIN log : log[i].op = op}

\* the container recorded on the handle when the call was made
PriorOf(log) == log[1].seenRef

\* containers the runtime has launched for the handle so far
Launched == {i \in ContainerRefs : rt[i] # "absent"}

\* C1: a start() called on a handle that records a container issues stop
\* and then remove for that container, and both have completed, before its
\* run request is issued; when the stop or the remove fails, nothing more is
\* issued (no run request) and start() rejects.
C1_RestartOrdering ==
    \A c \in Calls :
        (issued[c] # <<>> /\ PriorOf(issued[c]) # Undefined) =>
            LET log == issued[c] IN
            /\ log[1].op = "stop" /\ log[1].target = PriorOf(log)
            /\ Len(log) >= 2 =>
                  /\ log[1].res = "ok"
                  /\ log[2].op = "remove" /\ log[2].target = PriorOf(log)
            /\ Len(log) >= 3 => log[2].res = "ok" /\ log[3].op = "run"
            /\ \A i \in Positions(log, "run") : i = 3
            /\ (log[1].res = "err" \/ (Len(log) >= 2 /\ log[2].res = "err")) =>
                  /\ promise[c].state = "rejected"
                  /\ promise[c].error \in {"StopError", "RemoveError"}

\* a restart went through: stop, remove, then the run request, which started
C1_Witness ==
    \E c \in Calls :
        /\ Len(issued[c]) >= 3
        /\ PriorOf(issued[c]) # Undefined
        /\ issued[c][3].op = "run" /\ issued[c][3].res = "started"

\* C2: under sequential use, at most one container launched by the handle
\* is not yet removed.
C2_AtMostOneLive == Cardinality(Live) <= 1

\* a restart after a failed start: the old container is gone, a new one runs
C2_Witness ==
    \E i, j \in ContainerRefs :
        /\ rt[i] = "removed" /\ rt[j] = "running"
        /\ \E c \in Calls : pc[c] = "left"

\* C3: containerId is defined if and only if containerRef is defined.
C3_IdIffRef == (containerId # Undefined) <=> (container # Undefined)

\* both are still defined after a destroy() that removed the container
C3_Witness ==
    /\ container # Undefined /\ containerId = ContainerIdOf(container)
    /\ lastOp.op = "destroy" /\ rt[container] = "removed"

\* C4: destroy() on a handle on which no container was ever started fails
\* with NoContainerError, issues no remove request and changes nothing.
C4_DestroyNeverStarted ==
    [][((lastOp'.op = "destroy" \/ destroyCall' # destroyCall) /\ Launched = {}) =>
          /\ lastOp'.op = "destroy"
          /\ lastOp'.res = "NoContainerError"
          /\ lastOp'.req = "none"
          /\ UNCHANGED <<config, lists, calls, container, containerId, rt, pc, promise, issued>>
      ]_vars

C4_Witness ==
    /\ lastOp.op = "destroy" /\ lastOp.res = "NoContainerError" /\ Launched = {}
    /\ destroyCall = NoCall

\* the latest start() resolved and no other has been called since
Ready == \E c \in Calls : promise[c].state = "resolved"

\* C5, as claimed: once destroy() has succeeded after a successful start()
\* the recorded reference is cleared (getContainerId() then fails).
C5_DestroyClears ==
    (lastOp.op = "destroy" /\ lastOp.res = "ok" /\ Ready) =>
        /\ container = Undefined
        /\ GetContainerIdResult.res = "NotStartedError"

\* destroy() is called in this step and issues its request
DestroyCalled == destroyCall = NoCall /\ destroyCall' # NoCall

\* the reply to destroy()'s request settles the call in this step
DestroySettled == destroyCall # NoCall /\ destroyCall' = NoCall

\* C5, amended: destroy() called after a successful start() issues a remove
\* request for the recorded container and settles with the runtime's reply
\* to it; neither the call nor the reply changes the recorded reference and
\* id, so that a following getContainerId() returns the id and a following
\* destroy() issues a remove request again.
C5_DestroyKeepsRef ==
    /\ [][(DestroyCalled /\ Ready) =>
            /\ \E c \in Calls : promise[c].state = "resolved" /\ container = promise[c].value
            /\ destroyCall' = Requested(container)
            /\ UNCHANGED <<container, containerId, rt>>]_vars
    /\ [][DestroySettled =>
            /\ lastOp'.op = "destroy" /\ lastOp'.req = "remove"
            /\ lastOp'.target = destroyCall.target
            /\ lastOp'.res \in {"ok", "RemoveError"}
            /\ lastOp'.res = "ok" => rt'[lastOp'.target] = "removed"
            /\ UNCHANGED <<container, containerId>>
            /\ GetContainerIdResult'.res = "ok"
            /\ GetContainerIdResult'.val = ContainerIdOf(container)
            /\ DestroyHasContainer']_vars

C5_Witness ==
    /\ lastOp.op = "destroy" /\ lastOp.res = "ok" /\ Ready
    /\ lastOp.target = container /\ rt[container] = "removed"

\* no start() has resolved so far
NeverReady == \A c \in Calls : pc[c] # "left" /\ promise[c].state # "resolved"

\* C6, as claimed: getContainerId() fails with NotStartedError whenever no
\* start() has completed successfully yet.
C6_FailsBeforeReady ==
    (lastOp.op = "getContainerId" /\ NeverReady) => lastOp.res = "NotStartedError"

\* the container launched last
LatestLaunched == CHOOSE i \in Launched : \A j \in Launched : j <= i

\* C6, amended: getContainerId() fails with NotStartedError as long as no
\* "start" event has been handled (no container launched for the handle);
\* from then on, also while start() is polling and after a start() that
\* failed, it returns the id of the container launched last, which is the
\* recorded id; the value does not change while no new container is launched.
C6_IdOnceStarted ==
    /\ [](lastOp.op = "getContainerId" =>
            IF Launched = {}
              THEN lastOp.res = "NotStartedError"
              ELSE /\ lastOp.res = "ok"
                   /\ lastOp.val = ContainerIdOf(LatestLaunched)
                   /\ lastOp.val = containerId)
    /\ [][(GetContainerIdResult.res = "ok" /\ Launched' = Launched) =>
            GetContainerIdResult' = GetContainerIdResult]_vars

\* the id is returned while start() is still polling
C6_Witness ==
    /\ lastOp.op = "getContainerId" /\ lastOp.res = "ok"
    /\ \E c \in Calls : promise[c].state = "pending" /\ pc[c] = "sleep"

\* C7, as claimed: when the runtime answers k statuses not ending in
\* "(healthy)" and then one that does, without a query error, start()
\* resolves at the (k+1)-th query.
C7_ResolvesAtHealthy ==
    \A c \in Calls :
        LET log == issued[c] IN
        \A i \in Positions(log, "query") :
            (/\ log[i].res = "healthy"
             /\ \A j \in Positions(log, "query") : log[j].res \notin {"err", "absent"}) =>
                promise[c].state = "resolved"

\* C7, amended: when the runtime answers k statuses not ending in
\* "(healthy)" and then one that does, without a query error, the call has
\* issued k+1 queries and k waits, one wait between two consecutive
\* queries, and issues nothing after the healthy answer; start() resolves,
\* with the container of the event, at the (k+1)-th query and not before,
\* unless the run callback has rejected it after the "start" event: then it
\* stays rejected with that error.
C7_HealthPolling ==
    \A c \in Calls :
        LET log == issued[c] IN
        /\ \A i \in Positions(log, "query") :
              /\ log[i].res = "unhealthy" => i < Len(log) /\ log[i + 1].op = "wait"
              /\ log[i].res = "healthy" =>
                    /\ i = Len(log)
                    /\ pc[c] = "ended"
                    /\ NumQueries(log) = NumWaits(log) + 1
                    /\ \A j \in Positions(log, "query") : j < i => log[j].res = "unhealthy"
                    /\ \/ promise[c].state = "resolved" /\ promise[c].value = c
                       \/ promise[c].state = "rejected" /\ promise[c].error = "RunError"
              /\ (i > 1 /\ log[i - 1].op # "wait") => Positions(log, "query") \cap 1..(i - 1) = {}
        /\ \A i \in Positions(log, "wait") :
              /\ log[i - 1].op = "query" /\ log[i - 1].res = "unhealthy"
              /\ i < Len(log) => log[i + 1].op = "query" /\ log[i].res = "ok"
        /\ promise[c].state = "resolved" =>
              /\ log[Len(log)].op = "query" /\ log[Len(log)].res = "healthy"
              /\ \A i \in Positions(log, "query") : i < Len(log) => log[i].res = "unhealthy"
              /\ NumQueries(log) = NumWaits(log) + 1
              /\ promise[c].value = c

\* start() resolved at a third query, after two "not yet healthy" answers
\* and two waits (every wait the bound allows)
C7_Witness ==
    \E c \in Calls :
        /\ promise[c].state = "resolved"
        /\ NumQueries(issued[c]) = MaxPolls + 1 /\ NumWaits(issued[c]) = MaxPolls
        /\ NumQueries(issued[c]) >= 3

\* C8: when the run request fails before a "start" event, start() rejects
\* with that error, the run request is not issued again, no status query is
\* issued, and the handle's reference and id are as they were when the run
\* request was issued.
C8_RunFailure ==
    \A c \in Calls :
        LET log == issued[c] IN
        /\ Cardinality(Positions(log, "run")) <= 1
        /\ \A i \in Positions(log, "run") :
              log[i].res = "err" =>
                  /\ i = Len(log)
                  /\ promise[c].state = "rejected" /\ promise[c].error = "RunError"
                  /\ pc[c] = "ended"
                  /\ NumQueries(log) = 0
                  /\ container = log[i].seenRef
                  /\ containerId = log[i].seenId

\* the run request of a restart failed: the handle still records the
\* container that the restart removed
C8_Witness ==
    \E c \in Calls :
        /\ Len(issued[c]) = 3
        /\ issued[c][3].op = "run" /\ issued[c][3].res = "err"
        /\ container # Undefined

\* C9: when log streaming throws after the "start" event, start() rejects
\* with that failure.
C9_LogFailureRejects ==
    \A c \in Calls :
        \A i \in Positions(issued[c], "logs") :
            issued[c][i].res = "err" => promise[c].state = "rejected"

\* the error a failed status query is rejected with
QueryError(res) == IF res = "err" THEN "ListError" ELSE "NoContainerWithId"

\* C10, as claimed: a status query that errors makes start() reject with
\* that error.
C10_QueryErrorIsTheError ==
    \A c \in Calls :
        \A i \in Positions(issued[c], "query") :
            issued[c][i].res \in {"err", "absent"} =>
                /\ promise[c].state = "rejected"
                /\ promise[c].error = QueryError(issued[c][i].res)

\* C10, amended: a status query that errors ends the loop, no further
\* query or wait is issued by the call, and start() is rejected: with that
\* error when it was still pending, and else it stays rejected with the
\* error the run callback had reported.  A "not yet healthy" answer is
\* followed by a wait and a further query.
C10_QueryErrorEndsLoop ==
    /\ [](\A c \in Calls :
            LET log == issued[c] IN
            \A i \in Positions(log, "query") :
                /\ log[i].res \in {"err", "absent"} =>
                      /\ i = Len(log)
                      /\ pc[c] = "ended"
                      /\ promise[c].state = "rejected"
                      /\ promise[c].error \in {QueryError(log[i].res), "RunError"}
                /\ log[i].res = "unhealthy" =>
                      /\ i < Len(log) /\ log[i + 1].op = "wait"
                      /\ log[i + 1].res = "ok" =>
                            i + 2 <= Len(log) /\ log[i + 2].op = "query")
    /\ [][\A c \in Calls :
            (/\ pc[c] = "awaitList" /\ pc'[c] = "ended"
             /\ promise[c].state = "pending"
             /\ issued'[c][Len(issued'[c])].res \in {"err", "absent"}) =>
                /\ promise'[c].state = "rejected"
                /\ promise'[c].error = QueryError(issued'[c][Len(issued'[c])].res)]_vars

\* a query failed after a "not yet healthy" answer and a wait
C10_Witness ==
    \E c \in Calls :
        /\ NumWaits(issued[c]) = MaxPolls
        /\ issued[c][Len(issued[c])].op = "query"
        /\ issued[c][Len(issued[c])].res \in {"err", "absent"}
        /\ promise[c].error \in {"ListError", "NoContainerWithId"}

\* the "start" event of call c is handled in this step (lines 113-115)
StartedStep(c) ==
    /\ pc[c] = "awaitRun"
    /\ pc'[c] \in {"awaitLogs", "awaitList"}

\* C11: containerRef and containerId are changed only by start()'s
\* "started" event handler; stop(), destroy(), getContainerId(),
\* getContainerIpAddress(), getContainerImageName() and getContainer()
\* leave both unchanged, whether they succeed or fail.
C11_FieldsFrame ==
    [][/\ (lastOp'.op # "none" \/ calls' # calls) => UNCHANGED <<container, containerId>>
       /\ <<container, containerId>>' # <<container, containerId>> =>
              \E c \in Calls : StartedStep(c) /\ container' = c
      ]_vars

\* a getContainerIpAddress() that failed on a started handle left both
\* fields recorded
C11_Witness ==
    /\ lastOp.op = "getContainerIpAddress" /\ lastOp.res = "NoContainerWithId"
    /\ container # Undefined /\ containerId = container

\* C12, as claimed: once containerId has been set it never changes to a
\* different value, across any later start(), stop() or destroy().
C12_IdNeverChanges ==
    [][containerId # Undefined => containerId' = containerId]_vars

\* C12, amended: once containerId has been set it is never unset, and it
\* changes only when the "started" event of a later start() records the
\* newly launched container, after that start() removed the old one.
C12_IdChangesOnlyOnRestart ==
    [][containerId # Undefined =>
          /\ containerId' # Undefined
          /\ containerId' # containerId =>
                \E c \in Calls :
                    /\ StartedStep(c)
                    /\ containerId' = c /\ c \notin Launched
                    /\ rt[containerId] = "removed"
      ]_vars

\* a re-start recorded the id of the second container
C12_Witness ==
    \E i, j \in ContainerRefs :
        /\ i # j /\ rt[i] = "removed"
        /\ containerId = j /\ container = j

\* the runtime has delivered the "start" event for the run request of call c
StartEventSeen(c) ==
    \E i \in Positions(issued[c], "run") : issued[c][i].res = "started"

\* no status query of call c has failed
QueriesNeverErred(c) ==
    \A i \in Positions(issued[c], "query") : issued[c][i].res \notin {"err", "absent"}

\* a status query of call c was answered with a status ending in "(healthy)"
AnsweredHealthy(c) ==
    \E i \in Positions(issued[c], "query") : issued[c][i].res = "healthy"

\* C13, as claimed: after the "started" event, while no status query has
\* failed, start() has resolved with the container reference once the
\* runtime has answered with a status ending in "(healthy)", and until then
\* it is unsettled and its handler is on its way to the next status query.
C13_HealthDecidesStart ==
    \A c \in Calls :
        (StartEventSeen(c) /\ QueriesNeverErred(c)) =>
            /\ AnsweredHealthy(c) =>
                  promise[c].state = "resolved" /\ promise[c].value = c
            /\ ~AnsweredHealthy(c) =>
                  /\ promise[c].state = "pending"
                  /\ pc[c] \in {"awaitLogs", "awaitList", "sleep"}

\* C14: getContainerIpAddress() on a started handle, when the runtime's
\* list holds the container, returns the IP address of the first network in
\* the order the container's networks are enumerated, and fails with
\* NoNetworkError when the network mapping is empty; when no container id
\* is recorded it fails and returns no address.  The recorded id is the one
\* read when the runtime's reply is delivered.
C14_FirstNetworkAddress ==
    lastOp.op = "getContainerIpAddress" =>
        /\ containerId = Undefined =>
              lastOp.res \notin {"ok", "NoNetworkError"} /\ lastOp.str = <<>>
        /\ lastOp.res = "ok" =>
              lastOp.input # <<>> /\ lastOp.str = lastOp.input[1].ip
        /\ (containerId # Undefined
              /\ lastOp.res \notin {"ListError", "NoContainerWithId"}) =>
              IF lastOp.input = <<>>
                THEN lastOp.res = "NoNetworkError" /\ lastOp.str = <<>>
                ELSE lastOp.res = "ok" /\ lastOp.str = lastOp.input[1].ip

\* with the networks enumerated as custom, bridge the address is custom's
C14_Witness ==
    /\ lastOp.op = "getContainerIpAddress" /\ lastOp.res = "ok"
    /\ lastOp.input = <<Custom, Bridge>>
    /\ lastOp.str = Custom.ip

\* the option as the constructor takes it: omitted or empty means default
Effective(opt, default) ==
    IF ~opt.given \/ Len(opt.value) = 0 THEN default ELSE opt.value

\* imageName + ":" + imageTag for the options the handle was built from
ExpectedImageFqn ==
    Effective(opts.imageName, DefaultImageName) \o <<":">>
        \o Effective(opts.imageVersion, DefaultImageVersion)

\* C15: for every construction-time configuration getContainerImageName()
\* returns imageName + ":" + imageTag, an omitted or empty imageName or
\* imageVersion option being replaced by its default, so that the tag is
\* never empty; the result is the same in every lifecycle state and the
\* call changes no state.
C15_ImageName ==
    /\ [](/\ GetContainerImageNameResult.res = "ok"
          /\ GetContainerImageNameResult.str = ExpectedImageFqn
          /\ ExpectedImageFqn[Len(ExpectedImageFqn)] # ":"
          /\ ExpectedImageFqn[1] # ":"
          /\ lastOp.op = "getContainerImageName" => lastOp = GetContainerImageNameResult)
    /\ [][lastOp'.op = "getContainerImageName" =>
             UNCHANGED <<config, lists, calls, container, containerId, rt, pc, promise, issued>>]_vars

\* the image name of a ready handle built with a name and an empty version
C15_Witness ==
    /\ lastOp.op = "getContainerImageName"
    /\ opts.imageName = Given(<<"localhost/", "chia">>)
    /\ opts.imageVersion = Given(<<>>)
    /\ lastOp.str = <<"localhost/", "chia", ":", "v1.0.0">>
    /\ Ready

\* C16: no status query of a start() is issued before the runtime has
\* delivered the "start" event for that call's run request; a call whose
\* "start" event has not arrived has issued no status query.
C16_NoPollBeforeStarted ==
    \A c \in Calls :
        LET log == issued[c] IN
        /\ \A i \in Positions(log, "query") :
              /\ \E j \in Positions(log, "run") : j < i /\ log[j].res = "started"
              /\ rt[c] # "absent"
        /\ ~StartEventSeen(c) => NumQueries(log) = 0

\* a call has polled twice after its "start" event, and an earlier run
\* request failed without one
C16_Witness ==
    /\ \E c \in Calls : StartEventSeen(c) /\ NumQueries(issued[c]) >= 2
    /\ \E i \in ContainerRefs : rt[i] = "absent" /\ pc[i] = "left"

\* stop() is called in this step: it fails at once or issues its request
StopCalled ==
    \/ lastOp'.op = "stop" /\ lastOp'.req = "none"
    \/ stopCall = NoCall /\ stopCall' # NoCall

\* the reply to stop()'s request settles the call in this step
StopSettled == stopCall # NoCall /\ stopCall' = NoCall

\* C17: stop() with no recorded container fails with an error and issues
\* no stop request; with a recorded container it issues a stop request for
\* that container and no remove request, and settles with the runtime's
\* reply to that request; containerRef and containerId stay recorded.
C17_StopNeedsContainer ==
    /\ [][StopCalled =>
            /\ UNCHANGED <<container, containerId, rt, destroyCall>>
            /\ IF container = Undefined
                 THEN /\ lastOp'.op = "stop"
                      /\ lastOp'.res \notin {"ok", "StopError"}
                      /\ stopCall' = stopCall
                 ELSE /\ lastOp'.op = "none"
                      /\ stopCall' = Requested(container)]_vars
    /\ [][StopSettled =>
            /\ UNCHANGED <<container, containerId, destroyCall>>
            /\ lastOp'.op = "stop" /\ lastOp'.req = "stop"
            /\ lastOp'.target = stopCall.target
            /\ \A i \in ContainerRefs :
                  /\ rt'[i] = "removed" => rt[i] = "removed"
                  /\ i # stopCall.target => rt'[i] = rt[i]]_vars

\* a stop() stopped the recorded container, which stays recorded
C17_Witness ==
    /\ lastOp.op = "stop" /\ lastOp.res = "ok" /\ lastOp.target = container
    /\ rt[container] = "stopped" /\ containerId = container

\* C18: when emitContainerLogs is enabled, start() begins streaming the
\* logs of the started container right after the "start" event and before
\* its first status query; when it is disabled, start() never begins
\* streaming logs.
C18_LogsBeforePolling ==
    \A c \in Calls :
        LET log == issued[c] IN
        IF emitContainerLogs
          THEN /\ \A i \in Positions(log, "run") :
                     log[i].res = "started" =>
                        /\ i < Len(log)
                        /\ log[i + 1].op = "logs" /\ log[i + 1].target = c
               /\ \A i \in Positions(log, "logs") :
                     i > 1 /\ log[i - 1].op = "run" /\ log[i - 1].res = "started"
               /\ \A i \in Positions(log, "query") :
                     \E j \in Positions(log, "logs") : j < i /\ log[j].res = "ok"
          ELSE Positions(log, "logs") = {}

\* logs were streamed and the first status query followed
C18_Witness ==
    /\ emitContainerLogs
    /\ \E c \in Calls :
          \E j \in Positions(issued[c], "logs") :
              /\ issued[c][j].res = "ok"
              /\ j < Len(issued[c]) /\ issued[c][j + 1].op = "query"

\* the health polling of call c has failed, and no start() has been called
\* since call c
PollingFailed(c) ==
    /\ \E i \in Positions(issued[c], "query") : issued[c][i].res \in {"err", "absent"}
    /\ \A d \in Calls : d > c => pc[d] = "unused"

\* C19: a start() whose health polling fails after the "start" event
\* issues no stop or remove for the container it launched and the handle
\* keeps that container's reference and id; the next start() then begins
\* with a stop request for that container, and issues its run request only
\* after the stop and the remove of that container have succeeded.
C19_FailedStartKeepsContainer ==
    /\ [](\A c \in Calls :
            LET log == issued[c] IN
            /\ PollingFailed(c) =>
                  /\ container = c /\ containerId = c
                  /\ \A i \in DOMAIN log :
                        log[i].op \in {"stop", "remove"} => log[i].target # c
            /\ (log # <<>> /\ PriorOf(log) # Undefined) =>
                  \A i \in Positions(log, "run") :
                      /\ i = 3
                      /\ log[1].op = "stop" /\ log[1].res = "ok"
                      /\ log[2].op = "remove" /\ log[2].res = "ok"
                      /\ log[1].target = PriorOf(log) /\ log[2].target = PriorOf(log))
    /\ [][\A c, d \in Calls :
            (PollingFailed(c) /\ pc[d] = "unused" /\ pc'[d] # "unused") =>
                /\ pc'[d] = "awaitStop"
                /\ Len(issued'[d]) = 1
                /\ issued'[d][1].op = "stop" /\ issued'[d][1].target = c
                /\ PriorOf(issued'[d]) = c]_vars

\* polling failed on a container that still exists and is still recorded
C19_Witness ==
    \E c \in Calls :
        /\ PollingFailed(c)
        /\ promise[c].error \in {"ListError", "NoContainerWithId"}
        /\ container = c /\ containerId = c
        /\ c \in Live

\* no other start() has been in flight since call c was made
Alone(c) == \A d \in Calls \ {c} : pc[d] \in {"unused", "left"}

\* C20: in every reachable state, also when start() calls overlap, the
\* recorded containerId is the id of the recorded containerRef (a reference
\* stands for the container whose id the runtime gave it); and a start()
\* that no other start() overlapped resolves with the container that is
\* recorded on the handle at that moment.
C20_IdMatchesRef ==
    /\ [](containerId = container)
    /\ [][\A c \in Calls :
            (promise[c].state = "pending" /\ promise'[c].state = "resolved"
             /\ Alone(c)) =>
                promise'[c].value = container' /\ containerId' = c]_vars

\* two start() calls overlapped: the first resolved with its own container
\* while the handle records the container of the second, id and reference
C20_Witness ==
    \E c, d \in Calls :
        /\ c # d /\ StartEventSeen(c) /\ StartEventSeen(d)
        /\ promise[c].state = "resolved" /\ promise[c].value = c
        /\ container = d /\ containerId = d

====
